---- MODULE Spec2Model ----
(***************************************************************************)
(* State-machine model of the s3-mcp operational scripts:                  *)
(*   scripts/deploy.js   (create-or-update the CloudFormation stack),      *)
(*   scripts/teardown.js (empty the bucket, delete the stack),             *)
(*   scripts/seed.js     (upload the seed files to the bucket),            *)
(*   scripts/utils/read-outputs.js (the outputs.json reader).              *)
(* A behaviour is one script invoked from the shell (teardown possibly     *)
(* re-invoked), stepping through its external calls.  External calls are   *)
(* recorded in `calls`; their outcomes are nondeterministic.               *)
(***************************************************************************)
EXTENDS Integers, Sequences, FiniteSets, TLC

VARIABLES
    script,        \* which script this shell session runs: "deploy" | "teardown" | "seed"
    argv,          \* process.argv.slice(2)
    env,           \* process.env (the variables the scripts read)
    seedDir,       \* entries of the seed directory
    outputsFile,   \* outputs.json on disk
    stackPresent,  \* whether the CloudFormation stack exists in AWS
    bucket,        \* contents of the S3 bucket: [Versions, DeleteMarkers]
    pc,            \* position of the running script
    exited,        \* TRUE once the process has ended
    exitCode,      \* its exit code, meaningful when exited
    options,       \* result of parseArgs
    bucketName, region, trustAccountOne, trustAccountTwo,   \* resolved locals
    exists,        \* result of stackExists
    result,        \* execCommandSafe outcome of the create/update call (deploy)
                   \* or of the listing call (teardown)
    outputsData,   \* parsed describe-stacks outputs (deploy)
    listData,      \* parsed list-object-versions data (teardown)
    idx,           \* loop index of the delete loops (teardown), of the
                   \* upload loop (seed)
    files,         \* files enumerated by getFilesFromDirectory (seed)
    results,       \* upload results collected so far (seed)
    answer,        \* what the user typed at the confirmation prompt, if asked
    calls,         \* external commands issued by the current run, in order
    previous       \* how the previous run of the script ended, if there was one

vars == <<script, argv, env, seedDir, files, results, outputsFile, stackPresent, bucket, pc, exited,
          exitCode, options, bucketName, region, trustAccountOne,
          trustAccountTwo, exists, result, outputsData, listData, idx, answer,
          calls, previous>>

inputs == <<script, argv, env, seedDir>>
uploads == <<files, results>>
world  == <<outputsFile, stackPresent, bucket>>
locals == <<bucketName, region, trustAccountOne, trustAccountTwo, exists,
            result, outputsData, listData, idx, answer>>

----------------------------------------------------------------------------
(* Bounds of the model *)

MaxVersions == 2     \* object versions initially in the bucket
MaxMarkers == 1      \* delete markers initially in the bucket
MaxEntries == 3      \* entries of the seed directory

----------------------------------------------------------------------------
(* JavaScript values *)

\* undefined and '' are both falsy; the model uses one value for both.
Undefined == ""

\* a || b
Or(a, b) == IF a # Undefined THEN a ELSE b

\* String.prototype.includes on texts modelled as sequences of fragments
Includes(text, phrase) ==
    \E i \in 1..(Len(text) - Len(phrase) + 1) :
        SubSeq(text, i, i + Len(phrase) - 1) = phrase

\* map lookup: a missing key reads as undefined
Get(map, key) == IF key \in DOMAIN map THEN map[key] ELSE Undefined

----------------------------------------------------------------------------
(* Program constants *)

STACK_NAME == "s3-mcp-infrastructure"
NoUpdatesPhrase == <<"No updates are to be performed">>
DefaultRegion == "us-east-1"
DefaultTrustAccountOne == "690332314549"
DefaultTrustAccountTwo == "332134949057"
HardCodedBucketParameter == "s3-mcp-test-bucket-12345"
DocumentedDefaultBucket == "s3-mcp-bucket"

----------------------------------------------------------------------------
(* outputs.json and readOutputs *)

OutputKeys == <<"BucketName", "Region", "TrustPolicyAccountIdOne",
                "TrustPolicyAccountIdTwo">>

\* value a previous deploy recorded under each key
RecordedValue(key) ==
    CASE key = "BucketName" -> "recorded-bucket"
      [] key = "Region" -> "ap-south-1"
      [] key = "TrustPolicyAccountIdOne" -> "333333333333"
      [] key = "TrustPolicyAccountIdTwo" -> "444444444444"

\* the text of outputs.json as JSON tokens (white space left out)
Punct(c) == [t |-> "punct", v |-> c]
Str(chars) == [t |-> "string", v |-> chars]

\* JSON.stringify of one {OutputKey, OutputValue} object
StringifyObject(o) ==
    << Punct("{"), Str("OutputKey"), Punct(":"), Str(o.OutputKey), Punct(","),
       Str("OutputValue"), Punct(":"), Str(o.OutputValue), Punct("}") >>

RECURSIVE StringifyElements(_, _)
StringifyElements(data, i) ==
    IF i > Len(data) THEN <<>>
    ELSE (IF i > 1 THEN <<Punct(",")>> ELSE <<>>)
         \o StringifyObject(data[i]) \o StringifyElements(data, i + 1)

\* JSON.stringify(outputsData, null, 2)
JSONstringify(data) ==
    <<Punct("[")>> \o StringifyElements(data, 1) \o <<Punct("]")>>

EmptyObject == [k \in {} |-> Undefined]

EndOfText == [t |-> "end", v |-> Undefined]
Tok(toks, i) == IF i <= Len(toks) THEN toks[i] ELSE EndOfText

ParseFailed == [ok |-> FALSE, value |-> <<>>, next |-> 0]
Parsed(value, next) == [ok |-> TRUE, value |-> value, next |-> next]

RECURSIVE ParseMembers(_, _, _)
\* the members of an object: "name": "value" pairs, a later name replacing
\* an earlier equal one
ParseMembers(toks, i, acc) ==
    IF /\ Tok(toks, i).t = "string"
       /\ Tok(toks, i + 1) = Punct(":")
       /\ Tok(toks, i + 2).t = "string"
    THEN LET name == Tok(toks, i).v
             acc2 == [k \in (DOMAIN acc) \cup {name} |->
                        IF k = name THEN Tok(toks, i + 2).v ELSE acc[k]]
         IN  IF Tok(toks, i + 3) = Punct(",")
             THEN ParseMembers(toks, i + 4, acc2)
             ELSE IF Tok(toks, i + 3) = Punct("}")
             THEN Parsed(acc2, i + 4)
             ELSE ParseFailed
    ELSE ParseFailed

ParseObject(toks, i) ==
    IF Tok(toks, i) # Punct("{") THEN ParseFailed
    ELSE IF Tok(toks, i + 1) = Punct("}") THEN Parsed(EmptyObject, i + 2)
    ELSE ParseMembers(toks, i + 1, EmptyObject)

RECURSIVE ParseElements(_, _, _)
\* the elements of an array of objects
ParseElements(toks, i, acc) ==
    LET o == ParseObject(toks, i) IN
      IF ~o.ok THEN ParseFailed
      ELSE IF Tok(toks, o.next) = Punct(",")
      THEN ParseElements(toks, o.next + 1, Append(acc, o.value))
      ELSE IF Tok(toks, o.next) = Punct("]")
      THEN Parsed(Append(acc, o.value), o.next + 1)
      ELSE ParseFailed

\* JSON.parse of the file's text: an array of objects, or a SyntaxError
JSONparse(toks) ==
    LET a == IF Tok(toks, 1) # Punct("[") THEN ParseFailed
             ELSE IF Tok(toks, 2) = Punct("]") THEN Parsed(<<>>, 3)
             ELSE ParseElements(toks, 2, <<>>)
    IN  IF a.ok /\ a.next = Len(toks) + 1 THEN a ELSE ParseFailed

NoFile == [present |-> FALSE, readable |-> FALSE, text |-> <<>>]
UnreadableFile == [present |-> TRUE, readable |-> FALSE, text |-> <<>>]
MalformedFile ==
    [present |-> TRUE, readable |-> TRUE, text |-> <<Punct("["), Punct("{")>>]
JsonFile(data) ==
    [present |-> TRUE, readable |-> TRUE, text |-> JSONstringify(data)]

RECURSIVE OutputsWith(_, _)
\* the {OutputKey, OutputValue} array holding the keys of `keep`, in stack order
OutputsWith(keep, i) ==
    IF i > Len(OutputKeys) THEN <<>>
    ELSE (IF OutputKeys[i] \in keep
          THEN <<[OutputKey |-> OutputKeys[i],
                  OutputValue |-> RecordedValue(OutputKeys[i])]>>
          ELSE <<>>) \o OutputsWith(keep, i + 1)

\* variant: only the last entry kept
ReduceLastOnly(data, i, acc) ==
    IF data = <<>> THEN acc
    ELSE [k \in {data[Len(data)].OutputKey} |-> data[Len(data)].OutputValue]

RECURSIVE Reduce(_, _, _)
\* Array.prototype.reduce with acc[output.OutputKey] = output.OutputValue
Reduce(data, i, acc) ==
    IF i > Len(data) THEN acc
    ELSE Reduce(data, i + 1,
                [k \in (DOMAIN acc) \cup {data[i].OutputKey} |->
                    IF k = data[i].OutputKey THEN data[i].OutputValue
                    ELSE acc[k]])

\* variant: a failed read answered with the documented default bucket
readOutputsOrDefault(file) ==
    IF file.present /\ file.readable /\ JSONparse(file.text).ok
    THEN Reduce(JSONparse(file.text).value, 1, EmptyObject)
    ELSE [k \in {"BucketName"} |-> DocumentedDefaultBucket]

\* readOutputs: any read or parse failure yields {}
readOutputs(file) ==
    IF file.present /\ file.readable /\ JSONparse(file.text).ok
    THEN Reduce(JSONparse(file.text).value, 1, EmptyObject)
    ELSE EmptyObject

----------------------------------------------------------------------------
(* Process control *)

Running == ~exited

\* the process ends with `code` at position `label`
Finish(label, code) == /\ pc' = label
                       /\ exited' = TRUE
                       /\ exitCode' = code

\* process.exit(code) (or an unhandled rejection) at the current position
Exit(code) == Finish(pc, code)

Goto(label) == /\ pc' = label
               /\ UNCHANGED <<exited, exitCode>>

EmptyBucket == [Versions |-> <<>>, DeleteMarkers |-> <<>>]

\* no prompt was shown (forced, or not reached)
NotAsked == <<"(not asked)">>

\* summary of a finished run; NoRun before the first one
NoRun == [ended |-> FALSE, pc |-> "", exitCode |-> 0]
Ended(label, code) == [ended |-> TRUE, pc |-> label, exitCode |-> code]

Call(cmd, rgn, args) == [cmd |-> cmd, region |-> rgn, args |-> args]

Issue(c) == calls' = Append(calls, c)

Issued(cmd) == \E i \in 1..Len(calls) : calls[i].cmd = cmd

----------------------------------------------------------------------------
(* deploy.js: parseArgs *)

DeployDefaults == [region |-> DefaultRegion, bucketName |-> Undefined,
                   trustAccountOne |-> Undefined, trustAccountTwo |-> Undefined,
                   help |-> FALSE]

RECURSIVE DeployParseLoop(_, _, _)
\* the for/switch loop over args; args[i + 1] past the end reads as undefined
DeployParseLoop(args, i, o) ==
    IF i > Len(args) THEN o
    ELSE LET arg == args[i]
             val == IF i + 1 <= Len(args) THEN args[i + 1] ELSE Undefined
         IN CASE arg = "--region" ->
                   DeployParseLoop(args, i + 2, [o EXCEPT !.region = val])
              [] arg = "--bucket-name" ->
                   DeployParseLoop(args, i + 2, [o EXCEPT !.bucketName = val])
              [] arg = "--trust-account-one" ->
                   DeployParseLoop(args, i + 2, [o EXCEPT !.trustAccountOne = val])
              [] arg = "--trust-account-two" ->
                   DeployParseLoop(args, i + 2, [o EXCEPT !.trustAccountTwo = val])
              [] arg \in {"--help", "-h"} -> [o EXCEPT !.help = TRUE]
              [] OTHER -> DeployParseLoop(args, i + 1, o)

DeployParseOptions(args) == DeployParseLoop(args, 1, DeployDefaults)

DeployParseArgs ==
    /\ script = "deploy" /\ Running /\ pc = "parseArgs"
    /\ options' = DeployParseOptions(argv)
    /\ IF options'.help THEN Exit(0)
       ELSE IF options'.region = Undefined THEN Exit(1)
       ELSE Goto("checkAWSCLI")
    /\ UNCHANGED <<inputs, uploads, world, locals, calls, previous>>

----------------------------------------------------------------------------
(* deploy.js: preflight checks *)

DeployCheckAWSCLI ==
    /\ script = "deploy" /\ Running /\ pc = "checkAWSCLI"
    /\ Issue(Call("aws --version", Undefined, <<>>))
    /\ \E ok \in BOOLEAN :
          IF ok THEN Goto("checkAWSCredentials") ELSE Exit(1)
    /\ UNCHANGED <<inputs, uploads, world, locals, options, previous>>

DeployCheckAWSCredentials ==
    /\ script = "deploy" /\ Running /\ pc = "checkAWSCredentials"
    /\ Issue(Call("sts get-caller-identity", Undefined, <<>>))
    /\ \E ok \in BOOLEAN :
          IF ok THEN Goto("resolve") ELSE Exit(1)
    /\ UNCHANGED <<inputs, uploads, world, locals, options, previous>>

----------------------------------------------------------------------------
(* deploy.js: deployStack *)

\* const bucketName = options.bucketName || process.env.BUCKET_NAME || previousOutputs.BucketName
DeployBucketName(o, e, prev) ==
    Or(o.bucketName, Or(e.BUCKET_NAME, Get(prev, "BucketName")))

\* const region = options.region || process.env.AWS_DEFAULT_REGION || previousOutputs.Region || 'us-east-1'
DeployRegion(o, e, prev) ==
    Or(o.region, Or(e.AWS_DEFAULT_REGION, Or(Get(prev, "Region"), DefaultRegion)))

\* variant: the persisted record consulted before the environment
TrustAccountOneEnvLast(o, e, prev) ==
    Or(o.trustAccountOne, Or(Get(prev, "TrustPolicyAccountIdOne"),
       Or(e.TRUST_ACCOUNT_ONE, DefaultTrustAccountOne)))

DeployTrustAccountOne(o, e, prev) ==
    Or(o.trustAccountOne, Or(e.TRUST_ACCOUNT_ONE,
       Or(Get(prev, "TrustPolicyAccountIdOne"), DefaultTrustAccountOne)))

DeployTrustAccountTwo(o, e, prev) ==
    Or(o.trustAccountTwo, Or(e.TRUST_ACCOUNT_TWO,
       Or(Get(prev, "TrustPolicyAccountIdTwo"), DefaultTrustAccountTwo)))

\* lines 145-161: read the previous outputs, resolve the four settings
DeployResolve ==
    /\ script = "deploy" /\ Running /\ pc = "resolve"
    /\ LET previousOutputs == readOutputs(outputsFile) IN
         /\ bucketName' = DeployBucketName(options, env, previousOutputs)
         /\ region' = DeployRegion(options, env, previousOutputs)
         /\ trustAccountOne' = DeployTrustAccountOne(options, env, previousOutputs)
         /\ trustAccountTwo' = DeployTrustAccountTwo(options, env, previousOutputs)
    /\ Goto("stackExists")
    /\ UNCHANGED <<inputs, uploads, world, options, exists, result, outputsData,
                   listData, idx, answer, calls, previous>>

\* stackExists: true only when describe-stacks succeeds; any failure reads false
DeployStackExists ==
    /\ script = "deploy" /\ Running /\ pc = "stackExists"
    /\ Issue(Call("describe-stacks", region, <<STACK_NAME>>))
    /\ \E ok \in BOOLEAN : exists' = (ok /\ stackPresent)
    /\ Goto("validate")
    /\ UNCHANGED <<inputs, uploads, world, options, bucketName, region, trustAccountOne,
                   trustAccountTwo, result, outputsData, listData, idx, answer,
                   previous>>

\* if (!trustAccountOne || !trustAccountTwo) throw ...
TrustAccountsMissing(one, two) == one = Undefined \/ two = Undefined

\* lines 177-200; the throw is an unhandled rejection of main(): exit code 1
DeployValidate ==
    /\ script = "deploy" /\ Running /\ pc = "validate"
    /\ IF TrustAccountsMissing(trustAccountOne, trustAccountTwo)
       THEN Exit(1) ELSE Goto("execOperation")
    /\ UNCHANGED <<inputs, uploads, world, locals, options, calls, previous>>

Operation(ex) == IF ex THEN "update-stack" ELSE "create-stack"
WaitCommand(ex) == IF ex THEN "stack-update-complete" ELSE "stack-create-complete"

\* the bucket name interpolated into ParameterKey=YourBucketName (line 171)
BucketParameter(name) == HardCodedBucketParameter

\* stderr texts the CLI may produce on failure
StderrTexts ==
    { <<>>,
      <<"An error occurred (ValidationError): ">> \o NoUpdatesPhrase,
      NoUpdatesPhrase \o <<".">>,
      <<"An error occurred (AlreadyExistsException)">>,
      <<"No updates">> }

Success == [success |-> TRUE, stderr |-> <<>>]
Failure(text) == [success |-> FALSE, stderr |-> text]
NoResult == [success |-> FALSE, stderr |-> <<"(not run)">>]

\* line 203: the create/update call through execCommandSafe
DeployExecOperation ==
    /\ script = "deploy" /\ Running /\ pc = "execOperation"
    /\ Issue(Call(Operation(exists), region,
                  <<BucketParameter(bucketName), trustAccountOne, trustAccountTwo>>))
    /\ \E r \in {Success} \cup {Failure(t) : t \in StderrTexts} :
          /\ result' = r
          /\ stackPresent' = (stackPresent \/ (r.success /\ ~exists))
    /\ Goto("classify")
    /\ UNCHANGED <<inputs, uploads, outputsFile, bucket, options, bucketName, region,
                   trustAccountOne, trustAccountTwo, exists, outputsData,
                   listData, idx, answer, previous>>

\* variant: every text on stderr taken for the "no updates" answer
AnyStderrIsNoUpdates(r) == r.stderr # <<>>

\* variant: the phrase looked for in stdout, which a failed call leaves empty
StdoutNoUpdates(r) == Includes(<<>>, NoUpdatesPhrase)

\* result.stderr && result.stderr.includes('No updates are to be performed')
IsNoUpdates(r) == r.stderr # <<>> /\ Includes(r.stderr, NoUpdatesPhrase)

\* lines 205-216: classify the outcome of the create/update call
DeployClassify ==
    /\ script = "deploy" /\ Running /\ pc = "classify"
    /\ IF ~result.success
       THEN IF IsNoUpdates(result) THEN Goto("getOutputs") ELSE Exit(1)
       ELSE Goto("wait")
    /\ UNCHANGED <<inputs, uploads, world, locals, options, calls, previous>>

\* lines 218-226: strict execCommand, process.exit(1) on failure
DeployWait ==
    /\ script = "deploy" /\ Running /\ pc = "wait"
    /\ Issue(Call("wait", region, <<WaitCommand(exists)>>))
    /\ \E ok \in BOOLEAN : IF ok THEN Goto("getOutputs") ELSE Exit(1)
    /\ UNCHANGED <<inputs, uploads, world, locals, options, previous>>

\* Stacks[0].Outputs as the stack reports them for the deployed parameters
StackOutputs(bkt, rgn, one, two) ==
    << [OutputKey |-> "BucketName", OutputValue |-> bkt],
       [OutputKey |-> "Region", OutputValue |-> rgn],
       [OutputKey |-> "TrustPolicyAccountIdOne", OutputValue |-> one],
       [OutputKey |-> "TrustPolicyAccountIdTwo", OutputValue |-> two] >>

\* lines 230-242: fetch the outputs (strict runner) and JSON.parse them
DeployGetOutputs ==
    /\ script = "deploy" /\ Running /\ pc = "getOutputs"
    /\ Issue(Call("describe-stacks outputs", region, <<STACK_NAME>>))
    /\ \E ok \in BOOLEAN, parses \in BOOLEAN :
          IF ok /\ parses
          THEN /\ \E data \in { <<>>,
                                StackOutputs(BucketParameter(bucketName), region,
                                             trustAccountOne, trustAccountTwo) } :
                      outputsData' = data
               /\ Goto("writeOutputs")
          ELSE /\ Exit(1)
               /\ UNCHANGED outputsData
    /\ UNCHANGED <<inputs, uploads, world, options, bucketName, region, trustAccountOne,
                   trustAccountTwo, exists, result, listData, idx, answer, previous>>

\* lines 245-252, then the end of deployStack and of main: exit code 0
DeployWriteOutputs ==
    /\ script = "deploy" /\ Running /\ pc = "writeOutputs"
    /\ \E ok \in BOOLEAN :
          IF ok THEN /\ outputsFile' = JsonFile(outputsData)
                     /\ Finish("done", 0)
          ELSE /\ UNCHANGED outputsFile
               /\ Exit(1)
    /\ UNCHANGED <<inputs, uploads, stackPresent, bucket, locals, options, calls,
                   previous>>

----------------------------------------------------------------------------
(* teardown.js: parseArgs, preflight checks, confirmation *)

TeardownDefaults == [region |-> DefaultRegion, force |-> FALSE, help |-> FALSE]

RECURSIVE TeardownParseLoop(_, _, _)
TeardownParseLoop(args, i, o) ==
    IF i > Len(args) THEN o
    ELSE LET arg == args[i]
             val == IF i + 1 <= Len(args) THEN args[i + 1] ELSE Undefined
         IN CASE arg = "--region" ->
                   TeardownParseLoop(args, i + 2, [o EXCEPT !.region = val])
              [] arg \in {"--force", "-f"} ->
                   TeardownParseLoop(args, i + 1, [o EXCEPT !.force = TRUE])
              [] arg \in {"--help", "-h"} -> [o EXCEPT !.help = TRUE]
              [] OTHER -> TeardownParseLoop(args, i + 1, o)

TeardownParseOptions(args) == TeardownParseLoop(args, 1, TeardownDefaults)

TeardownParseArgs ==
    /\ script = "teardown" /\ Running /\ pc = "parseArgs"
    /\ options' = TeardownParseOptions(argv)
    /\ IF options'.help THEN Exit(0) ELSE Goto("checkAWSCLI")
    /\ UNCHANGED <<inputs, uploads, world, locals, calls, previous>>

TeardownCheckAWSCLI ==
    /\ script = "teardown" /\ Running /\ pc = "checkAWSCLI"
    /\ Issue(Call("aws --version", Undefined, <<>>))
    /\ \E ok \in BOOLEAN :
          IF ok THEN Goto("checkAWSCredentials") ELSE Exit(1)
    /\ UNCHANGED <<inputs, uploads, world, locals, options, previous>>

TeardownCheckAWSCredentials ==
    /\ script = "teardown" /\ Running /\ pc = "checkAWSCredentials"
    /\ Issue(Call("sts get-caller-identity", Undefined, <<>>))
    /\ \E ok \in BOOLEAN :
          IF ok THEN Goto("confirm") ELSE Exit(1)
    /\ UNCHANGED <<inputs, uploads, world, locals, options, previous>>

\* String.prototype.toLowerCase, character by character
LowerChar(c) ==
    CASE c = "Y" -> "y" [] c = "E" -> "e" [] c = "S" -> "s"
      [] c = "N" -> "n" [] c = "O" -> "o" [] OTHER -> c

\* variant: the answer compared as typed
SameCase(str) == str

toLowerCase(str) == [i \in 1..Len(str) |-> LowerChar(str[i])]

\* answers the user may type at the prompt
Answers == { <<"y", "e", "s">>, <<"Y", "E", "S">>, <<"Y", "e", "s">>,
             <<"y">>, <<" ", "y", "e", "s">>, <<"n", "o">>, <<>> }

\* confirmTeardown, and main's handling of its result (lines 419-423)
TeardownConfirm ==
    /\ script = "teardown" /\ Running /\ pc = "confirm"
    /\ IF options.force
       THEN /\ UNCHANGED answer
            /\ Goto("resolve")
       ELSE \E typed \in Answers :
              /\ answer' = typed
              /\ IF toLowerCase(typed) = <<"y", "e", "s">>
                 THEN Goto("resolve") ELSE Exit(0)
    /\ UNCHANGED <<inputs, uploads, world, options, bucketName, region, trustAccountOne,
                   trustAccountTwo, exists, result, outputsData, listData, idx,
                   calls, previous>>

----------------------------------------------------------------------------
(* teardown.js: teardown *)

\* const region = options.region || previousOutputs.Region || 'us-east-1'
TeardownRegion(o, e, prev) == Or(o.region, Or(Get(prev, "Region"), DefaultRegion))

\* variant: the bucket-name check left out
BucketNameNeverMissing(name) == FALSE

\* if (!bucketName) process.exit(1)
BucketNameMissing(name) == name = Undefined

\* lines 376-388
TeardownResolve ==
    /\ script = "teardown" /\ Running /\ pc = "resolve"
    /\ LET previousOutputs == readOutputs(outputsFile) IN
         /\ bucketName' = Get(previousOutputs, "BucketName")
         /\ region' = TeardownRegion(options, env, previousOutputs)
    /\ IF BucketNameMissing(bucketName') THEN Exit(1) ELSE Goto("stackExists")
    /\ UNCHANGED <<inputs, uploads, world, options, trustAccountOne, trustAccountTwo,
                   exists, result, outputsData, listData, idx, answer, calls,
                   previous>>

\* variant: the result of the probe disregarded
AfterProbeIgnored(ex) == "list"

\* where teardown goes after the probe: return when the stack does not exist
AfterProbe(ex) == IF ex THEN "list" ELSE "nothingToTeardown"

\* lines 390-394; returning from teardown ends main with exit code 0
TeardownStackExists ==
    /\ script = "teardown" /\ Running /\ pc = "stackExists"
    /\ Issue(Call("describe-stacks", region, <<STACK_NAME>>))
    /\ \E ok \in BOOLEAN :
          /\ exists' = (ok /\ stackPresent)
          /\ IF AfterProbe(exists') = "nothingToTeardown"
             THEN Finish("nothingToTeardown", 0)
             ELSE Goto(AfterProbe(exists'))
    /\ UNCHANGED <<inputs, uploads, world, options, bucketName, region, trustAccountOne,
                   trustAccountTwo, result, outputsData, listData, idx, answer,
                   previous>>

----------------------------------------------------------------------------
(* teardown.js: clearS3Bucket *)

\* where the delete loops start, given the listed versions and delete markers
FirstDeleteStep(data) ==
    IF Len(data.Versions) + Len(data.DeleteMarkers) = 0 THEN "deleteStack"
    ELSE IF Len(data.Versions) > 0 THEN "deleteVersions"
    ELSE "deleteMarkers"

\* variant: the delete-marker loop left out
AfterVersionsNoMarkers(data) == "deleteStack"

\* after the last version: the marker loop, if there are markers
AfterVersions(data) ==
    IF Len(data.DeleteMarkers) > 0 THEN "deleteMarkers" ELSE "deleteStack"

\* lines 259-281: one listing call through the safe runner, then JSON.parse.
\* A failed listing returns normally; an unparsable listing rethrows (exit 1).
ClearList ==
    /\ script = "teardown" /\ Running /\ pc = "list"
    /\ Issue(Call("list-object-versions", region, <<bucketName>>))
    /\ idx' = 1
    /\ \E ok \in BOOLEAN, parses \in BOOLEAN :
          /\ result' = IF ok THEN Success ELSE Failure(<<>>)
          /\ IF ~ok THEN /\ UNCHANGED listData
                         /\ Goto("deleteStack")
             ELSE IF ~parses THEN /\ UNCHANGED listData
                                  /\ Exit(1)
             ELSE /\ listData' = bucket
                  /\ Goto(FirstDeleteStep(bucket))
    /\ UNCHANGED <<inputs, uploads, world, options, bucketName, region, trustAccountOne,
                   trustAccountTwo, exists, outputsData, answer, previous>>

\* S3 removes exactly the addressed version or delete marker
Without(seq, item) == SelectSeq(seq, LAMBDA x : x # item)

DeleteCall(item) ==
    Call("delete-object", region, <<bucketName, item.Key, item.VersionId>>)

\* lines 284-289: one delete call per listed version, failures ignored
ClearDeleteVersion ==
    /\ script = "teardown" /\ Running /\ pc = "deleteVersions"
    /\ LET version == listData.Versions[idx] IN
         /\ Issue(DeleteCall(version))
         /\ \E ok \in BOOLEAN :
               bucket' = IF ok
                         THEN [bucket EXCEPT !.Versions = Without(@, version)]
                         ELSE bucket
    /\ IF idx < Len(listData.Versions)
       THEN /\ idx' = idx + 1
            /\ Goto("deleteVersions")
       ELSE /\ idx' = 1
            /\ Goto(AfterVersions(listData))
    /\ UNCHANGED <<inputs, uploads, outputsFile, stackPresent, options, bucketName,
                   region, trustAccountOne, trustAccountTwo, exists, result,
                   outputsData, listData, answer, previous>>

\* lines 292-297: one delete call per listed delete marker, failures ignored
ClearDeleteMarker ==
    /\ script = "teardown" /\ Running /\ pc = "deleteMarkers"
    /\ LET marker == listData.DeleteMarkers[idx] IN
         /\ Issue(DeleteCall(marker))
         /\ \E ok \in BOOLEAN :
               bucket' = IF ok
                         THEN [bucket EXCEPT !.DeleteMarkers = Without(@, marker)]
                         ELSE bucket
    /\ IF idx < Len(listData.DeleteMarkers)
       THEN /\ idx' = idx + 1
            /\ Goto("deleteMarkers")
       ELSE /\ idx' = 1
            /\ Goto("deleteStack")
    /\ UNCHANGED <<inputs, uploads, outputsFile, stackPresent, options, bucketName,
                   region, trustAccountOne, trustAccountTwo, exists, result,
                   outputsData, listData, answer, previous>>

----------------------------------------------------------------------------
(* teardown.js: deleteStack, cleanupOutputs *)

\* lines 310-319: a failed request throws; main's rejection ends the process
\* with exit code 1
DeleteStackRequest ==
    /\ script = "teardown" /\ Running /\ pc = "deleteStack"
    /\ Issue(Call("delete-stack", region, <<STACK_NAME>>))
    /\ \E ok \in BOOLEAN :
          IF ok THEN Goto("waitDelete") ELSE Exit(1)
    /\ UNCHANGED <<inputs, uploads, world, locals, options, previous>>

\* variant: the wait run through the safe runner, its failure disregarded
AfterWaitIgnored(ok) == "cleanupOutputs"

\* where deleteStack goes after the wait: the strict runner exits on failure
AfterWait(ok) == IF ok THEN "cleanupOutputs" ELSE "exit"

\* lines 321-328: wait stack-delete-complete through the strict runner
DeleteStackWait ==
    /\ script = "teardown" /\ Running /\ pc = "waitDelete"
    /\ Issue(Call("wait", region, <<"stack-delete-complete">>))
    /\ \E ok \in BOOLEAN :
          /\ stackPresent' = (stackPresent /\ ~ok)
          /\ IF AfterWait(ok) = "exit" THEN Exit(1) ELSE Goto(AfterWait(ok))
    /\ UNCHANGED <<inputs, uploads, outputsFile, bucket, locals, options, previous>>

\* cleanupOutputs (an unlink error is logged and swallowed), then the end of
\* teardown and of main: exit code 0
CleanupOutputs ==
    /\ script = "teardown" /\ Running /\ pc = "cleanupOutputs"
    /\ \E ok \in BOOLEAN :
          outputsFile' = IF outputsFile.present /\ ok THEN NoFile ELSE outputsFile
    /\ Finish("done", 0)
    /\ UNCHANGED <<inputs, uploads, stackPresent, bucket, locals, options, calls,
                   previous>>

\* the user runs the same teardown command line again
Rerun ==
    /\ script = "teardown" /\ exited
    /\ previous' = Ended(pc, exitCode)
    /\ pc' = "parseArgs" /\ exited' = FALSE /\ exitCode' = 0
    /\ options' = TeardownDefaults
    /\ bucketName' = Undefined /\ region' = Undefined
    /\ exists' = FALSE /\ result' = NoResult
    /\ listData' = EmptyBucket /\ idx' = 1
    /\ answer' = NotAsked /\ calls' = <<>>
    /\ UNCHANGED <<inputs, uploads, world, trustAccountOne, trustAccountTwo, outputsData>>

----------------------------------------------------------------------------
(* seed.js *)

\* the characters of the bucket names the model uses
Spelling(name) ==
    CASE name = "my-s3-bucket" ->
           <<"m", "y", "-", "s", "3", "-", "b", "u", "c", "k", "e", "t">>
      [] name = "recorded-bucket" ->
           <<"r", "e", "c", "o", "r", "d", "e", "d", "-", "b", "u", "c", "k",
             "e", "t">>
      [] name = "s3-mcp-bucket" ->
           <<"s", "3", "-", "m", "c", "p", "-", "b", "u", "c", "k", "e", "t">>
      [] name = "abc" -> <<"a", "b", "c">>
      [] name = "ab" -> <<"a", "b">>
      [] name = "AB" -> <<"A", "B">>
      [] name = "a_b" -> <<"a", "_", "b">>
      [] name = "-abc" -> <<"-", "a", "b", "c">>
      [] name = "My_Bucket" -> <<"M", "y", "_", "B", "u", "c", "k", "e", "t">>
      [] name = "aaaaaaaaaaaaaaaaaaaaaaaaaaaaaaaaaaaaaaaaaaaaaaaaaaaaaaaaaaaaaaaa" ->
           [i \in 1..64 |-> "a"]

LowerOrDigit == {"a", "b", "c", "d", "e", "k", "m", "o", "p", "r", "s", "t", "u",
                 "y", "0", "1", "2", "3", "9"}

\* /^[a-z0-9][a-z0-9-]{1,61}[a-z0-9]$/.test(name)
BucketNamePattern(chars) ==
    /\ Len(chars) >= 3 /\ Len(chars) <= 63
    /\ chars[1] \in LowerOrDigit
    /\ chars[Len(chars)] \in LowerOrDigit
    /\ \A i \in 2..(Len(chars) - 1) : chars[i] \in LowerOrDigit \cup {"-"}

\* !pattern.test(bucketName) && bucketName.length > 3
InvalidBucketName(name) ==
    ~BucketNamePattern(Spelling(name)) /\ Len(Spelling(name)) > 3

\* main (lines 552-580): the bucket name and its checks
SeedMain ==
    /\ script = "seed" /\ Running /\ pc = "parseArgs"
    /\ LET outputs == readOutputs(outputsFile) IN
         bucketName' = Or(IF Len(argv) >= 1 THEN argv[1] ELSE Undefined,
                          Get(outputs, "BucketName"))
    /\ IF bucketName' = Undefined THEN Exit(1)
       ELSE IF InvalidBucketName(bucketName') THEN Exit(1)
       ELSE Goto("checkBucketAccess")
    /\ UNCHANGED <<inputs, uploads, world, options, region, trustAccountOne,
                   trustAccountTwo, exists, result, outputsData, listData, idx,
                   answer, calls, previous>>

\* createS3Client(outputs.Region): process.env.AWS_REGION || region, the
\* parameter defaulting to DEFAULT_REGION
SeedRegion(e, outputs) ==
    Or(e.AWS_REGION, Or(Get(outputs, "Region"), DefaultRegion))

\* uploadToS3 lines 467-475: the client, then checkBucketAccess; its throw is
\* caught by uploadToS3, which exits with code 1
SeedCheckBucketAccess ==
    /\ script = "seed" /\ Running /\ pc = "checkBucketAccess"
    /\ region' = SeedRegion(env, readOutputs(outputsFile))
    /\ Issue(Call("ListObjectsV2", region', <<bucketName>>))
    /\ \E ok \in BOOLEAN : IF ok THEN Goto("scan") ELSE Exit(1)
    /\ UNCHANGED <<inputs, uploads, world, options, bucketName, trustAccountOne,
                   trustAccountTwo, exists, result, outputsData, listData, idx,
                   answer, previous>>

\* getFilesFromDirectory: the regular files among the entries, in readdir order
RegularFiles(entries) ==
    LET kept == SelectSeq(entries, LAMBDA e : e.isFile) IN
      [i \in 1..Len(kept) |->
          [localPath |-> <<"seed", kept[i].name>>, fileName |-> kept[i].name,
           size |-> kept[i].size]]

\* uploadToS3 lines 477-494: a failing readdir or stat is rethrown and ends
\* the run with code 1; no file ends main normally (exit code 0)
SeedScan ==
    /\ script = "seed" /\ Running /\ pc = "scan"
    /\ \E ok \in BOOLEAN :
          IF ~ok THEN /\ Exit(1)
                      /\ UNCHANGED files
          ELSE /\ files' = RegularFiles(seedDir)
               /\ IF Len(files') = 0 THEN Finish("noFiles", 0) ELSE Goto("upload")
    /\ idx' = 1
    /\ results' = <<>>
    /\ UNCHANGED <<inputs, world, options, bucketName, region, trustAccountOne,
                   trustAccountTwo, exists, result, outputsData, listData,
                   answer, calls, previous>>

UploadOutcomes == {"ok", "readFailed", "sendFailed"}

\* the value uploadFileToS3 returns (lines 385-398)
UploadResult(file, outcome) ==
    IF outcome = "ok"
    THEN [fileName |-> file.fileName, success |-> TRUE, etag |-> "etag",
          error |-> Undefined, size |-> file.size]
    ELSE [fileName |-> file.fileName, success |-> FALSE, etag |-> Undefined,
          error |-> IF outcome = "readFailed" THEN "ENOENT" ELSE "S3 error",
          size |-> file.size]

\* the calls uploadFileToS3 makes, with how each ended
UploadCalls(file, outcome) ==
    IF outcome = "readFailed"
    THEN <<Call("readFile", Undefined, <<file.fileName, "failed">>)>>
    ELSE <<Call("readFile", Undefined, <<file.fileName, "ok">>),
           Call("PutObject", region,
                <<bucketName, file.fileName,
                  IF outcome = "ok" THEN "ok" ELSE "failed">>)>>

\* variant: the loop left at the first failed upload
AfterUploadStopOnFailure(res, i, n) ==
    IF i < n /\ res.success THEN "upload" ELSE "summary"

\* for (const file of files): the next file, or the summary after the last
AfterUpload(res, i, n) == IF i < n THEN "upload" ELSE "summary"

\* lines 496-499: one uploadFileToS3 per file, its result pushed
SeedUploadFile ==
    /\ script = "seed" /\ Running /\ pc = "upload"
    /\ \E outcome \in UploadOutcomes :
          /\ calls' = calls \o UploadCalls(files[idx], outcome)
          /\ results' = Append(results, UploadResult(files[idx], outcome))
          /\ Goto(AfterUpload(UploadResult(files[idx], outcome), idx, Len(files)))
    /\ idx' = idx + 1
    /\ UNCHANGED <<inputs, files, world, options, bucketName, region,
                   trustAccountOne, trustAccountTwo, exists, result, outputsData,
                   listData, answer, previous>>

\* process.exit(failed.length === 0 ? 0 : 1)
SeedExitCode(res) ==
    IF Len(SelectSeq(res, LAMBDA r : ~r.success)) = 0 THEN 0 ELSE 1

\* lines 501-535: the summary and the exit code
SeedSummary ==
    /\ script = "seed" /\ Running /\ pc = "summary"
    /\ Finish("done", SeedExitCode(results))
    /\ UNCHANGED <<inputs, uploads, world, locals, options, calls, previous>>

----------------------------------------------------------------------------
(* Inputs of an invocation *)

Flag(name, value, given) == IF given THEN <<name, value>> ELSE <<>>

DeployArgvs ==
    { Flag("--region", "us-west-2", r) \o Flag("--bucket-name", "flag-bucket", b)
        \o Flag("--trust-account-one", "555555555555", o)
        \o Flag("--trust-account-two", "666666666666", t) :
        r \in BOOLEAN, b \in BOOLEAN, o \in BOOLEAN, t \in BOOLEAN }
    \cup { <<"--help">>, <<"--region">> }

Envs == [AWS_REGION : {Undefined},
         AWS_DEFAULT_REGION : {Undefined, "eu-west-1"},
         BUCKET_NAME : {Undefined, "env-bucket"},
         TRUST_ACCOUNT_ONE : {Undefined, "111111111111"},
         TRUST_ACCOUNT_TWO : {Undefined, "222222222222"}]

NoEnv == [AWS_REGION |-> Undefined, AWS_DEFAULT_REGION |-> Undefined, BUCKET_NAME |-> Undefined,
          TRUST_ACCOUNT_ONE |-> Undefined, TRUST_ACCOUNT_TWO |-> Undefined]

OutputsFiles ==
    { JsonFile(OutputsWith(keep, 1)) : keep \in SUBSET {OutputKeys[i] : i \in 1..Len(OutputKeys)} }
    \cup {NoFile, MalformedFile}

InitProcess ==
    /\ pc = "parseArgs" /\ exited = FALSE /\ exitCode = 0
    /\ options = DeployDefaults
    /\ bucketName = Undefined /\ region = Undefined
    /\ trustAccountOne = Undefined /\ trustAccountTwo = Undefined
    /\ exists = FALSE /\ result = NoResult
    /\ outputsData = <<>> /\ listData = EmptyBucket /\ idx = 1
    /\ answer = NotAsked
    /\ files = <<>> /\ results = <<>>
    /\ calls = <<>> /\ previous = NoRun

InitDeploy ==
    /\ script = "deploy"
    /\ argv \in DeployArgvs
    /\ env \in Envs
    /\ outputsFile \in OutputsFiles
    /\ stackPresent \in BOOLEAN
    /\ bucket = EmptyBucket
    /\ seedDir = <<>>
    /\ InitProcess

KeyNames == <<"q1_2024_sales.csv", "q1_2024_sales.csv", "q2_2024_sales.csv",
              "q3_2024_sales.csv">>
VersionIds == <<"v1", "v2", "v3", "v4">>
MarkerIds == <<"m1", "m2", "m3", "m4">>

InitialVersions(n) ==
    [i \in 1..n |-> [Key |-> KeyNames[i], VersionId |-> VersionIds[i]]]
InitialMarkers(n) ==
    [i \in 1..n |-> [Key |-> KeyNames[i], VersionId |-> MarkerIds[i]]]

TeardownArgvs ==
    { <<>>, <<"-f">>, <<"--region", "us-west-2">>,
      <<"--region", "us-west-2", "--force">>, <<"--help">>, <<"--region">> }

TeardownEnvs == { NoEnv, [NoEnv EXCEPT !.AWS_DEFAULT_REGION = "eu-west-1"] }

TeardownFiles ==
    { NoFile, UnreadableFile, MalformedFile,
      JsonFile(OutputsWith({"BucketName", "Region", "TrustPolicyAccountIdOne",
                            "TrustPolicyAccountIdTwo"}, 1)),
      JsonFile(OutputsWith({"BucketName"}, 1)),
      JsonFile(OutputsWith({"Region"}, 1)) }

InitTeardown ==
    /\ script = "teardown"
    /\ argv \in TeardownArgvs
    /\ env \in TeardownEnvs
    /\ outputsFile \in TeardownFiles
    /\ stackPresent \in BOOLEAN
    /\ bucket \in { [Versions |-> InitialVersions(n), DeleteMarkers |-> InitialMarkers(m)] :
                       n \in 0..MaxVersions, m \in 0..MaxMarkers }
    /\ seedDir = <<>>
    /\ InitProcess

SeedEntries ==
    << [name |-> "q1_2024_sales.csv", size |-> 2048, isFile |-> TRUE],
       [name |-> "archive", size |-> 4096, isFile |-> FALSE],
       [name |-> "q2_2024_sales.csv", size |-> 0, isFile |-> TRUE],
       [name |-> "q3_2024_sales.csv", size |-> 1536, isFile |-> TRUE],
       [name |-> "q4_2024_sales.csv", size |-> 1024, isFile |-> TRUE] >>

SeedDirs == { SubSeq(SeedEntries, 1, n) : n \in 0..MaxEntries }

SeedArgvs ==
    { <<>>, <<"my-s3-bucket">>, <<"abc">>, <<"ab">>, <<"AB">>, <<"a_b">>,
      <<"-abc">>, <<"My_Bucket">>,
      <<"aaaaaaaaaaaaaaaaaaaaaaaaaaaaaaaaaaaaaaaaaaaaaaaaaaaaaaaaaaaaaaaa">> }

SeedEnvs == { NoEnv, [NoEnv EXCEPT !.AWS_REGION = "eu-central-1"] }

InitSeed ==
    /\ script = "seed"
    /\ argv \in SeedArgvs
    /\ env \in SeedEnvs
    /\ outputsFile \in TeardownFiles
    /\ stackPresent = TRUE
    /\ bucket = EmptyBucket
    /\ seedDir \in SeedDirs
    /\ InitProcess

Init == InitDeploy \/ InitTeardown \/ InitSeed

Next ==
    \/ DeployParseArgs
    \/ DeployCheckAWSCLI
    \/ DeployCheckAWSCredentials
    \/ DeployResolve
    \/ DeployStackExists
    \/ DeployValidate
    \/ DeployExecOperation
    \/ DeployClassify
    \/ DeployWait
    \/ DeployGetOutputs
    \/ DeployWriteOutputs
    \/ TeardownParseArgs
    \/ TeardownCheckAWSCLI
    \/ TeardownCheckAWSCredentials
    \/ TeardownConfirm
    \/ TeardownResolve
    \/ TeardownStackExists
    \/ ClearList
    \/ ClearDeleteVersion
    \/ ClearDeleteMarker
    \/ DeleteStackRequest
    \/ DeleteStackWait
    \/ CleanupOutputs
    \/ Rerun
    \/ SeedMain
    \/ SeedCheckBucketAccess
    \/ SeedScan
    \/ SeedUploadFile
    \/ SeedSummary

Spec == Init /\ [][Next]_vars

----------------------------------------------------------------------------
(* Vocabulary of the properties *)

\* the value given with flag `name` on the command line, if any
FlagValue(args, name) ==
    IF \E i \in 1..(Len(args) - 1) : args[i] = name
    THEN args[(CHOOSE i \in 1..(Len(args) - 1) : args[i] = name) + 1]
    ELSE Undefined

\* explicit flag > environment variable > persisted record > default
Precedence(flag, envValue, recorded, default) ==
    IF flag # Undefined THEN flag
    ELSE IF envValue # Undefined THEN envValue
    ELSE IF recorded # Undefined THEN recorded
    ELSE default

\* the record as the running deploy read it (deploy rewrites it only at "done")
Persisted(key) == Get(readOutputs(outputsFile), key)

DeployBeforeWrite == script = "deploy" /\ pc # "done"

StackCalls == {"describe-stacks", "create-stack", "update-stack", "wait",
               "describe-stacks outputs"}
OperationCalls == {"create-stack", "update-stack"}
DestructiveCalls == {"list-object-versions", "delete-object", "delete-stack", "wait"}

IssuedAny(cmds) == \E i \in 1..Len(calls) : calls[i].cmd \in cmds

Count(cmd) == Cardinality({i \in 1..Len(calls) : calls[i].cmd = cmd})

\* the create/update call failed with the "no updates" text on stderr
NoUpdatesFailure ==
    /\ script = "deploy"
    /\ IssuedAny(OperationCalls)
    /\ ~result.success
    /\ Includes(result.stderr, NoUpdatesPhrase)

----------------------------------------------------------------------------
(* C1 *)

\* C1: when the create/update call fails through the safe runner with the
\* text "No updates are to be performed" on stderr, deploy issues no wait
\* call, does not exit at the failed call, goes on to the describe-stacks
\* outputs call, and (that call, the parse and the write succeeding) ends
\* with exit code 0 and outputs.json holding the fetched outputs.
C1_NoUpdatesIsNoOp ==
    NoUpdatesFailure =>
        /\ ~Issued("wait")
        /\ ~(exited /\ pc = "classify")
        /\ pc \in {"classify", "getOutputs", "writeOutputs", "done"}
        /\ (pc \in {"writeOutputs", "done"} => Issued("describe-stacks outputs"))
        /\ (pc = "done" => /\ exited /\ exitCode = 0
                           /\ outputsFile = JsonFile(outputsData))

C1_Witness ==
    /\ NoUpdatesFailure
    /\ pc = "done" /\ exitCode = 0
    /\ Len(outputsData) > 0 /\ outputsFile = JsonFile(outputsData)

----------------------------------------------------------------------------
(* C2 *)

ExpectedRegion ==
    Precedence(FlagValue(argv, "--region"), env.AWS_DEFAULT_REGION,
               Persisted("Region"), DefaultRegion)

\* C2: every stack call of deploy uses the region resolved by
\* --region > AWS_DEFAULT_REGION > persisted Region > 'us-east-1'.
C2_RegionPrecedence ==
    DeployBeforeWrite =>
        \A i \in 1..Len(calls) :
            calls[i].cmd \in StackCalls => calls[i].region = ExpectedRegion

----------------------------------------------------------------------------
(* C3 *)

ExpectedBucketName ==
    Precedence(FlagValue(argv, "--bucket-name"), env.BUCKET_NAME,
               Persisted("BucketName"), DocumentedDefaultBucket)

\* C3: the YourBucketName parameter of the create/update call is the bucket
\* name resolved by --bucket-name > BUCKET_NAME > persisted BucketName >
\* 's3-mcp-bucket'.
C3_BucketNameParameter ==
    DeployBeforeWrite =>
        \A i \in 1..Len(calls) :
            calls[i].cmd \in OperationCalls => calls[i].args[1] = ExpectedBucketName

----------------------------------------------------------------------------
(* C4 *)

ExpectedTrustAccountOne ==
    Precedence(FlagValue(argv, "--trust-account-one"), env.TRUST_ACCOUNT_ONE,
               Persisted("TrustPolicyAccountIdOne"), DefaultTrustAccountOne)

ExpectedTrustAccountTwo ==
    Precedence(FlagValue(argv, "--trust-account-two"), env.TRUST_ACCOUNT_TWO,
               Persisted("TrustPolicyAccountIdTwo"), DefaultTrustAccountTwo)

\* C4: each trust-account identifier passed to the create/update call is
\* resolved on its own by flag > environment variable > persisted output >
\* hard-coded default.
C4_TrustAccountPrecedence ==
    DeployBeforeWrite =>
        \A i \in 1..Len(calls) :
            calls[i].cmd \in OperationCalls =>
                /\ calls[i].args[2] = ExpectedTrustAccountOne
                /\ calls[i].args[3] = ExpectedTrustAccountTwo

\* the create/update call issued with the first identifier taken from the
\* environment over a persisted value, the second from the persisted record
C4_Witness ==
    /\ DeployBeforeWrite
    /\ IssuedAny(OperationCalls)
    /\ FlagValue(argv, "--trust-account-one") = Undefined
    /\ env.TRUST_ACCOUNT_ONE # Undefined
    /\ Persisted("TrustPolicyAccountIdOne") # Undefined
    /\ FlagValue(argv, "--trust-account-two") = Undefined
    /\ env.TRUST_ACCOUNT_TWO = Undefined
    /\ Persisted("TrustPolicyAccountIdTwo") # Undefined

----------------------------------------------------------------------------
(* C5 *)

NoTrustAccountSupplied ==
    /\ FlagValue(argv, "--trust-account-one") = Undefined
    /\ FlagValue(argv, "--trust-account-two") = Undefined
    /\ env.TRUST_ACCOUNT_ONE = Undefined
    /\ env.TRUST_ACCOUNT_TWO = Undefined
    /\ Persisted("TrustPolicyAccountIdOne") = Undefined
    /\ Persisted("TrustPolicyAccountIdTwo") = Undefined

\* C5: a deploy run given no trust-account identifier by flag, environment
\* or persisted record makes no external call, and ends with the fatal
\* validation error.
C5_MissingTrustAccountsFailFirst ==
    (DeployBeforeWrite /\ NoTrustAccountSupplied /\ ~options.help) =>
        /\ calls = <<>>
        /\ (exited => exitCode = 1)

----------------------------------------------------------------------------
(* C6 *)

ProbeReportedNoStack ==
    script = "teardown" /\ Issued("describe-stacks") /\ ~exists

\* C6: when the stack-existence probe of teardown reports no stack, the run
\* ends with exit code 0 having issued no list-object-versions, delete-object,
\* delete-stack or wait call.
C6_NoStackIsSuccessfulNoOp ==
    ProbeReportedNoStack =>
        /\ exited /\ exitCode = 0 /\ pc = "nothingToTeardown"
        /\ ~IssuedAny(DestructiveCalls)

C6_Witness == ProbeReportedNoStack /\ exited /\ Len(bucket.Versions) > 0

----------------------------------------------------------------------------
(* C7 *)

\* a re-run of teardown after a run that deleted the stack and removed
\* outputs.json
RerunAfterSuccess ==
    /\ script = "teardown"
    /\ previous = Ended("done", 0)
    /\ ~outputsFile.present
    /\ ~stackPresent

PreflightFailed == exited /\ pc \in {"checkAWSCLI", "checkAWSCredentials"}

\* C7 as stated: the re-run (its preflight checks passing) ends as a
\* successful no-op: exit code 0 and no destructive call.
C7_RerunIsSuccessfulNoOp ==
    (RerunAfterSuccess /\ exited /\ ~PreflightFailed) =>
        /\ exitCode = 0
        /\ ~IssuedAny(DestructiveCalls)

\* C7 amended: the re-run issues no destructive call (not even the stack
\* probe), but it does not end as a successful no-op: it stops at a preflight
\* check (exit 1), at a declined confirmation (exit 0), or else at the
\* bucket-name check with exit code 1.
C7_RerunStopsAtBucketName ==
    RerunAfterSuccess =>
        /\ ~IssuedAny(DestructiveCalls)
        /\ ~Issued("describe-stacks")
        /\ pc \in {"parseArgs", "checkAWSCLI", "checkAWSCredentials", "confirm",
                   "resolve"}
        /\ (exited /\ pc = "resolve" => exitCode = 1)
        /\ (exited /\ exitCode = 0 => pc = "confirm" /\ ~options.force)

C7_Witness ==
    RerunAfterSuccess /\ exited /\ pc = "resolve" /\ exitCode = 1

----------------------------------------------------------------------------
(* C8 *)

\* position of a command in the order of teardown's steps
StepRank(cmd) ==
    CASE cmd = "describe-stacks" -> 1
      [] cmd \in {"list-object-versions", "delete-object"} -> 2
      [] cmd = "delete-stack" -> 3
      [] cmd = "wait" -> 4
      [] OTHER -> 0

\* positions of teardown from the stack probe on: outputs.json held a bucket
\* name when the run read it
FromProbeOn == {"stackExists", "nothingToTeardown", "list", "deleteVersions",
                "deleteMarkers", "deleteStack", "waitDelete", "cleanupOutputs",
                "done"}

\* C8: the calls of a teardown run come in the order probe, bucket emptying,
\* delete-stack, wait; outputs.json is removed only at the end, after the
\* wait reported the stack deleted; when delete-stack or the wait fails the
\* file is still there and the run ends with exit code 1.
C8_TeardownOrder ==
    script = "teardown" =>
        /\ \A i, j \in 1..Len(calls) :
              i < j => StepRank(calls[i].cmd) <= StepRank(calls[j].cmd)
        /\ \A cmd \in {"describe-stacks", "list-object-versions", "delete-stack",
                       "wait"} : Count(cmd) <= 1
        /\ (Issued("delete-stack") => Issued("list-object-versions"))
        /\ (Issued("wait") => Issued("delete-stack"))
        /\ (Issued("list-object-versions") => Issued("describe-stacks"))
        /\ (pc \in FromProbeOn /\ ~outputsFile.present =>
              /\ pc = "done" /\ exitCode = 0
              /\ calls[Len(calls)].cmd = "wait"
              /\ ~stackPresent)
        /\ (exited /\ pc \in {"deleteStack", "waitDelete"} =>
              /\ exitCode = 1
              /\ outputsFile.present)

C8_Witness ==
    /\ script = "teardown" /\ pc = "done" /\ ~outputsFile.present
    /\ Issued("delete-object") /\ ~previous.ended

----------------------------------------------------------------------------
(* C9 *)

\* C9: when teardown issues the delete-stack request after the emptying step
\* made its delete calls, the bucket holds no object version and no delete
\* marker, whatever the outcomes of the delete calls.
C9_BucketEmptyAtDeleteStack ==
    (script = "teardown" /\ Issued("delete-object") /\ Issued("delete-stack")) =>
        /\ bucket.Versions = <<>>
        /\ bucket.DeleteMarkers = <<>>

----------------------------------------------------------------------------
(* C10 *)

\* the delete-object calls of the run, in order
DeleteCallsIssued == SelectSeq(calls, LAMBDA c : c.cmd = "delete-object")

\* one delete call per listed entry, with its key and version id
ExpectedDeleteCalls(data) ==
    [i \in 1..Len(data.Versions) |->
        Call("delete-object", region,
             <<bucketName, data.Versions[i].Key, data.Versions[i].VersionId>>)]
    \o
    [i \in 1..Len(data.DeleteMarkers) |->
        Call("delete-object", region,
             <<bucketName, data.DeleteMarkers[i].Key,
               data.DeleteMarkers[i].VersionId>>)]

\* positions reached once clearS3Bucket has returned
AfterClear == {"deleteStack", "waitDelete", "cleanupOutputs", "done"}

\* C10: clearS3Bucket makes one listing call; once it has returned, the
\* delete-object calls issued are exactly one per listed version and one per
\* listed delete marker, each with that entry's key and version id; when the
\* listing call fails there is no delete call and clearS3Bucket returns
\* normally.
C10_OneDeletePerListedEntry ==
    script = "teardown" =>
        /\ Count("list-object-versions") <= 1
        /\ (pc \in AfterClear => DeleteCallsIssued = ExpectedDeleteCalls(listData))
        /\ (Issued("list-object-versions") /\ ~result.success =>
              /\ DeleteCallsIssued = <<>>
              /\ pc \in AfterClear)

C10_Witness ==
    /\ script = "teardown" /\ pc \in AfterClear
    /\ Len(listData.Versions) = MaxVersions /\ Len(listData.DeleteMarkers) = MaxMarkers
    /\ Len(DeleteCallsIssued) = MaxVersions + MaxMarkers
    /\ bucket.DeleteMarkers # <<>>

----------------------------------------------------------------------------
(* C11 *)

\* the uploads of the run that failed: a failed read or a failed send
FailedUploads ==
    {i \in 1..Len(calls) :
        /\ calls[i].cmd \in {"readFile", "PutObject"}
        /\ calls[i].args[Len(calls[i].args)] = "failed"}

\* the files the run attempted to upload, in order
Attempted ==
    LET reads == SelectSeq(calls, LAMBDA c : c.cmd = "readFile") IN
      [i \in 1..Len(reads) |-> reads[i].args[1]]

FailedResults == {i \in 1..Len(results) : ~results[i].success}

\* C11: once the upload loop of a seed run over N enumerated files has ended
\* with K failed uploads, there are exactly N results in enumeration order,
\* exactly K of them marked failed and carrying an error text, every file was
\* attempted whatever happened to the earlier ones, and the exit code is
\* non-zero exactly when K > 0; a run that enumerates no file exits with 0.
C11_SeedResults ==
    script = "seed" =>
        /\ (pc \in {"summary", "done"} =>
              /\ files = RegularFiles(seedDir)
              /\ Len(results) = Len(files)
              /\ \A i \in 1..Len(files) : results[i].fileName = files[i].fileName
              /\ Attempted = [i \in 1..Len(files) |-> files[i].fileName]
              /\ Cardinality(FailedResults) = Cardinality(FailedUploads)
              /\ \A i \in 1..Len(results) :
                    results[i].success <=> results[i].error = Undefined)
        /\ (pc = "done" =>
              /\ exited
              /\ (exitCode # 0 <=> Cardinality(FailedUploads) > 0))
        /\ (pc = "noFiles" =>
              /\ exited /\ exitCode = 0
              /\ RegularFiles(seedDir) = <<>> /\ results = <<>>
              /\ Attempted = <<>>)

C11_Witness ==
    /\ script = "seed" /\ pc = "done" /\ exitCode = 1
    /\ Len(files) = MaxEntries - 1
    /\ ~results[1].success /\ results[Len(results)].success
    /\ Cardinality(FailedUploads) = 1

----------------------------------------------------------------------------
(* C12 *)

\* the keys of the {OutputKey, OutputValue} entries of an outputs array
WrittenKeys(data) == {data[i].OutputKey : i \in 1..Len(data)}

\* C12: once deploy has written to outputs.json the outputs it obtained from
\* the stack-describe call, readOutputs returns a mapping that holds, for
\* each written {OutputKey, OutputValue} entry, exactly that value under that
\* key, and no other key.
C12_OutputsRoundTrip ==
    (script = "deploy" /\ pc = "done") =>
        LET outputs == readOutputs(outputsFile) IN
          /\ DOMAIN outputs = WrittenKeys(outputsData)
          /\ \A i \in 1..Len(outputsData) :
                outputs[outputsData[i].OutputKey] = outputsData[i].OutputValue

C12_Witness ==
    /\ script = "deploy" /\ pc = "done" /\ exitCode = 0
    /\ Len(outputsData) = Len(OutputKeys)
    /\ readOutputs(outputsFile)["BucketName"] = HardCodedBucketParameter
    /\ readOutputs(outputsFile)["Region"] = "us-west-2"
    /\ readOutputs(outputsFile)["TrustPolicyAccountIdOne"] = "111111111111"
    /\ readOutputs(NoFile) = EmptyObject

----------------------------------------------------------------------------
(* C13 *)

\* the calls of teardown's probe, emptying and deletion steps
TeardownCalls == {"describe-stacks", "list-object-versions", "delete-object",
                  "delete-stack"}

\* C13: every call of teardown's stack probe, bucket emptying and stack
\* deletion goes to the region given by --region, else by AWS_DEFAULT_REGION,
\* else by the Region recorded in outputs.json, else to us-east-1.
C13_TeardownRegionPrecedence ==
    (script = "teardown" /\ pc # "done") =>
        \A i \in 1..Len(calls) :
            calls[i].cmd \in TeardownCalls => calls[i].region = ExpectedRegion

----------------------------------------------------------------------------
(* C14 *)

\* outputs.json is missing, unreadable, malformed, or holds no BucketName entry
LacksBucketName(file) ==
    \/ ~file.present
    \/ ~file.readable
    \/ ~JSONparse(file.text).ok
    \/ \A i \in 1..Len(JSONparse(file.text).value) :
          JSONparse(file.text).value[i]["OutputKey"] # "BucketName"

BeforeProbe == {"parseArgs", "checkAWSCLI", "checkAWSCredentials", "confirm",
                "resolve"}

\* C14: when the outputs.json a teardown run reads holds no bucket name, the
\* run never gets past the bucket-name check: it ends there with exit code 1,
\* and it issues no stack-existence probe, no listing call, no delete-object
\* call and no delete-stack call.
C14_NoBucketNameIsFatal ==
    (script = "teardown" /\ pc # "done" /\ LacksBucketName(outputsFile)) =>
        /\ pc \in BeforeProbe
        /\ ~IssuedAny(TeardownCalls)
        /\ ~IssuedAny(DestructiveCalls)
        /\ (exited /\ pc = "resolve" => exitCode = 1)
        /\ (pc = "resolve" => bucketName = Undefined)

C14_Witness ==
    /\ script = "teardown" /\ exited /\ pc = "resolve" /\ exitCode = 1
    /\ outputsFile = MalformedFile
    /\ ~IssuedAny(TeardownCalls) /\ ~previous.ended

----------------------------------------------------------------------------
(* C15 *)

\* the run was not confirmed: it ended at the prompt with exit code 0 and
\* issued none of teardown's calls
Cancelled ==
    /\ exited /\ pc = "confirm" /\ exitCode = 0
    /\ ~IssuedAny(TeardownCalls \cup DestructiveCalls)

\* the spellings of "yes" in lower and upper case letters
YesSpellings ==
    { <<a, b, c>> : a \in {"y", "Y"}, b \in {"e", "E"}, c \in {"s", "S"} }

\* the run was started with --force or -f
Forced == \E i \in 1..Len(argv) : argv[i] \in {"--force", "-f"}

\* C15 as stated: without force, a teardown run issues none of its calls and
\* does not remove outputs.json unless the answer is the literal "yes"; any
\* other answer ends the run with exit code 0 and nothing changed; with force
\* the prompt is skipped.
C15_LiteralYesOnly ==
    script = "teardown" =>
        /\ (answer \notin {NotAsked, <<"y", "e", "s">>} => Cancelled)
        /\ (~Forced /\ pc \in FromProbeOn => answer = <<"y", "e", "s">>)
        /\ (Forced => answer = NotAsked)

\* C15 amended: the answer is compared ignoring letter case. Without force, a
\* run gets past the prompt exactly when the answer spells "yes" in any
\* mixture of upper and lower case; any other answer ends the run with exit
\* code 0 and nothing issued; with force the prompt is skipped.
C15_YesIgnoringCase ==
    script = "teardown" =>
        /\ (answer \notin {NotAsked} \cup YesSpellings => Cancelled)
        /\ (answer \in YesSpellings => pc \in {"resolve"} \cup FromProbeOn)
        /\ (~Forced /\ pc \in FromProbeOn => answer \in YesSpellings)
        /\ (Forced => answer = NotAsked)

C15_Witness ==
    /\ script = "teardown" /\ ~Forced
    /\ answer = <<"Y", "E", "S">>
    /\ Issued("delete-stack")

----------------------------------------------------------------------------
(* C16 *)

\* 3 to 63 characters, each a lowercase letter, a digit or a hyphen, the
\* first and the last a letter or a digit
WellFormedBucketName(name) ==
    LET chars == Spelling(name) IN
      /\ Len(chars) \in 3..63
      /\ \A i \in 1..Len(chars) : chars[i] \in LowerOrDigit \cup {"-"}
      /\ chars[1] \in LowerOrDigit /\ chars[Len(chars)] \in LowerOrDigit

SeedCalls == {"ListObjectsV2", "readFile", "PutObject"}

\* C16: a seed run whose bucket name is malformed ends with exit code 1 at the
\* name check, before the bucket-access check and before any upload, whatever
\* the length of the name.
C16_MalformedNameRejected ==
    (script = "seed" /\ bucketName # Undefined
       /\ ~WellFormedBucketName(bucketName)) =>
        /\ exited /\ pc = "parseArgs" /\ exitCode = 1
        /\ ~IssuedAny(SeedCalls)

----------------------------------------------------------------------------
(* C17 *)

\* the create/update call failed, and not with the "no updates" text
OtherFailure ==
    /\ script = "deploy"
    /\ IssuedAny(OperationCalls)
    /\ ~result.success
    /\ ~Includes(result.stderr, NoUpdatesPhrase)

\* the wait for the operation was issued and has returned successfully
WaitCompleted ==
    /\ Issued("wait")
    /\ pc \in {"getOutputs", "writeOutputs", "done"}

\* C17: when deploy's create/update call fails for a reason other than "no
\* updates", the run stops at the classification of that failure, with exit
\* code 1, without a wait call, without a query of the stack outputs, and
\* with outputs.json as it was; and deploy changes outputs.json only in its
\* write step, after the operation's wait has completed or the operation was
\* classified as a no-op.
C17_FailedOperationWritesNothing ==
    [][ /\ (OtherFailure' =>
              /\ pc' = "classify"
              /\ (exited' => exitCode' = 1)
              /\ ~Issued("wait")'
              /\ ~Issued("describe-stacks outputs")'
              /\ outputsFile' = outputsFile)
        /\ (script = "deploy" /\ outputsFile' # outputsFile =>
              /\ pc = "writeOutputs"
              /\ (WaitCompleted \/ NoUpdatesFailure)) ]_vars

C17_Witness ==
    /\ OtherFailure
    /\ exited /\ pc = "classify" /\ exitCode = 1
    /\ outputsFile = JsonFile(OutputsWith({"BucketName"}, 1))
    /\ calls[Len(calls)].cmd = "update-stack"

----------------------------------------------------------------------------
(* C18 *)

\* the step of deploy that issues the create/update call
OperationStep == script = "deploy" /\ pc = "execOperation" /\ pc' = "classify"

\* the step of deploy that issues the wait call
WaitStep == script = "deploy" /\ pc = "wait" /\ calls' # calls

\* the completion condition that matches an operation
MatchingWait(op) ==
    IF op = "update-stack" THEN "stack-update-complete"
    ELSE "stack-create-complete"

\* the create/update call the run issued
OperationIssued ==
    calls[CHOOSE i \in 1..Len(calls) : calls[i].cmd \in OperationCalls].cmd

\* C18: deploy issues update-stack when the stack exists in the target region
\* and create-stack when it does not; the existence probe has been made
\* before the operation and no wait has; a wait, when there is one, follows
\* the operation and names the completion condition matching it.
C18_OperationMatchesExistence ==
    [][ /\ (OperationStep =>
              /\ calls'[Len(calls')].cmd =
                    (IF stackPresent THEN "update-stack" ELSE "create-stack")
              /\ calls'[Len(calls')].region = region
              /\ \E i \in 1..Len(calls) :
                    /\ calls[i].cmd = "describe-stacks"
                    /\ calls[i].region = region
              /\ ~Issued("wait"))
        /\ (WaitStep =>
              /\ Count("create-stack") + Count("update-stack") = 1
              /\ calls'[Len(calls')].args = <<MatchingWait(OperationIssued)>>) ]_vars

====
